---- MODULE Spec2Model ----
(***************************************************************************)
(* A model of pip_search/pip_search.py: the search() generator (the PoW    *)
(* handshake with pypi.org, the paginated search, the per-snippet package  *)
(* extraction and the optional GitHub enrichment), the module-level DEBUG  *)
(* flag, and the helpers get_github_info / get_links / get_repo_info.      *)
(*                                                                         *)
(* Python strings the code takes apart (element texts, dates, repository   *)
(* URLs, the PoW base and answer) are sequences of one-character strings;  *)
(* opaque strings are TLA+ strings.  A character that a TLA+ string cannot *)
(* hold is written as its Python escape: the string "\\x0b" is the one     *)
(* character U+000B, "\\u2003" the one character U+2003.                   *)
(* Every HTTP request is one step: the step appends the request to `log`   *)
(* and draws the server's response from a small set.                       *)
(***************************************************************************)
EXTENDS Integers, Sequences, FiniteSets, TLC

VARIABLES
    DEBUG,      \* module-level flag (line 16), process-wide
    collisions, \* the strings that share one SHA-256 digest (see sha256)
    query,      \* search(query, opts): the query
    opts,       \* search(query, opts): [debug, extra]
    pc,         \* position of the generator
    running,    \* TRUE while the consumer is inside next() on the generator
    err,        \* the exception that ended the generator ("" if none)
    log,        \* the requests made on the session of this call, in order
    path,       \* local `path` (line 85)
    chal,       \* locals base, hash, hmac, expires, token (line 95)
    c1, c2,     \* indices of the PoW loops (lines 100-101)
    answer,     \* local `answer` (line 98)
    evals,      \* number of sha256 evaluations made by the PoW loop
    page,       \* loop variable of the pagination loop (line 119)
    snippets,   \* local `snippets` (lines 75, 123)
    idx,        \* 1-based position of `for snippet in snippets` (line 141)
    pack,       \* local `pack` (line 154)
    soup,       \* the detail page parsed by get_links (line 211)
    gh_link,    \* local `gh_link` of get_github_info (line 201)
    apiResp,    \* the GitHub API response `r` of get_repo_info (line 172)
    info,       \* local `info` (line 157)
    yielded     \* the Packages the consumer has received from this call

vars == <<DEBUG, collisions, query, opts, pc, running, err, log, path,
          chal, c1, c2, answer, evals, page, snippets, idx, pack, soup,
          gh_link, apiResp, info, yielded>>

----------------------------------------------------------------------------
(* Bounds of the model and constants of the program. *)

\* snippets the result pages of one search hold at most, all pages together
MaxSnippets == 2

\* Config.page_size (line 22)
page_size == 2
\* Config.api_url (line 21), as characters and as a string
S_api_url ==      \* https://pypi.org/search/
    <<"h", "t", "t", "p", "s", ":", "/", "/", "p", "y", "p", "i", ".", "o",
      "r", "g", "/", "s", "e", "a", "r", "c", "h", "/">>

\* Python's None
None == [kind |-> "None"]

----------------------------------------------------------------------------
(* Python string helpers on sequences of characters. *)

\* needle in s
Contains(s, needle) ==
    \E i \in 1..(Len(s) - Len(needle) + 1) :
        SubSeq(s, i, i + Len(needle) - 1) = needle

\* s.find(needle): the first position (1-based) of needle in s, 0 if none
Find(s, needle) ==
    IF Contains(s, needle)
    THEN CHOOSE i \in 1..(Len(s) - Len(needle) + 1) :
            /\ SubSeq(s, i, i + Len(needle) - 1) = needle
            /\ \A k \in 1..(i - 1) : SubSeq(s, k, k + Len(needle) - 1) # needle
    ELSE 0

\* s.replace(old, ""): every non-overlapping occurrence removed, left to right
RECURSIVE Remove(_, _)
Remove(s, old) ==
    IF Find(s, old) = 0 THEN s
    ELSE SubSeq(s, 1, Find(s, old) - 1)
            \o Remove(SubSeq(s, Find(s, old) + Len(old), Len(s)), old)

\* s.split(sep): the list of the parts of s between occurrences of sep
RECURSIVE Split(_, _)
Split(s, sep) ==
    IF Find(s, sep) = 0 THEN <<s>>
    ELSE <<SubSeq(s, 1, Find(s, sep) - 1)>>
            \o Split(SubSeq(s, Find(s, sep) + Len(sep), Len(s)), sep)

\* s.rstrip(ch)
RECURSIVE RStrip(_, _)
RStrip(s, ch) ==
    IF Len(s) > 0 /\ s[Len(s)] = ch THEN RStrip(SubSeq(s, 1, Len(s) - 1), ch)
    ELSE s

\* The characters str.isspace() holds for: those str.strip() and
\* str.split() take for whitespace and \s matches in a str pattern.
Whitespace ==
    {"\t", "\n", "\\x0b", "\f", "\r", "\\x1c", "\\x1d", "\\x1e", "\\x1f",
     " ", "\\x85", "\\xa0", "\\u1680", "\\u2000", "\\u2001", "\\u2002",
     "\\u2003", "\\u2004", "\\u2005", "\\u2006", "\\u2007", "\\u2008",
     "\\u2009", "\\u200a", "\\u2028", "\\u2029", "\\u202f", "\\u205f",
     "\\u3000"}

\* s.lstrip()
RECURSIVE LStrip(_)
LStrip(s) ==
    IF Len(s) > 0 /\ s[1] \in Whitespace THEN LStrip(Tail(s)) ELSE s

\* s.rstrip()
RECURSIVE RStripWs(_)
RStripWs(s) ==
    IF Len(s) > 0 /\ s[Len(s)] \in Whitespace
    THEN RStripWs(SubSeq(s, 1, Len(s) - 1))
    ELSE s

\* s.strip()
Strip(s) == RStripWs(LStrip(s))

\* re.sub(r"\s+", " ", s): every maximal run of whitespace becomes one space
RECURSIVE CollapseWs(_)
CollapseWs(s) ==
    IF Len(s) = 0 THEN <<>>
    ELSE IF s[1] \in Whitespace THEN <<" ">> \o CollapseWs(LStrip(s))
    ELSE <<s[1]>> \o CollapseWs(Tail(s))

\* the length of the run of non-whitespace characters s starts with
RECURSIVE WordLen(_)
WordLen(s) ==
    IF Len(s) = 0 \/ s[1] \in Whitespace THEN 0 ELSE 1 + WordLen(Tail(s))

\* s.split(): the maximal runs of non-whitespace characters of s
RECURSIVE SplitWs(_)
SplitWs(s) ==
    LET t == LStrip(s)
    IN  IF Len(t) = 0 THEN <<>>
        ELSE <<SubSeq(t, 1, WordLen(t))>>
                \o SplitWs(SubSeq(t, WordLen(t) + 1, Len(t)))

\* "".join(s): the TLA+ string of a sequence of characters
RECURSIVE Join(_)
Join(s) == IF Len(s) = 0 THEN "" ELSE s[1] \o Join(Tail(s))

S_github == <<"g", "i", "t", "h", "u", "b">>
S_github_com == <<"g", "i", "t", "h", "u", "b", ".", "c", "o", "m", "/">>
S_issues == <<"i", "s", "s", "u", "e", "s">>
S_tags == <<"/", "t", "a", "g", "s">>

----------------------------------------------------------------------------
(* The proof of work (lines 97-107). *)

\* string.ascii_letters + string.digits (line 99)
characters ==
    <<"a", "b", "c", "d", "e", "f", "g", "h", "i", "j", "k", "l", "m",
      "n", "o", "p", "q", "r", "s", "t", "u", "v", "w", "x", "y", "z",
      "A", "B", "C", "D", "E", "F", "G", "H", "I", "J", "K", "L", "M",
      "N", "O", "P", "Q", "R", "S", "T", "U", "V", "W", "X", "Y", "Z",
      "0", "1", "2", "3", "4", "5", "6", "7", "8", "9">>

\* SHA-256 as a function the model can compute: the digest of a string is a
\* value that stands for the string, except that the strings of coll all
\* have one digest (with coll = {} the function is injective).
Digest(coll, c) ==
    IF c \in coll THEN <<"sha256", "collision">> ELSE <<"sha256">> \o c

\* hashlib.sha256(c.encode()).hexdigest() (line 103)
sha256(c) == Digest(collisions, c)

\* PowIteration without the `break` of line 105: a match does not end the
\* inner loop.
PowIteration_NoBreak(base, hash, i, j, ans) ==
    LET c == base \o <<characters[i]>> \o <<characters[j]>>
        hit == sha256(c) = hash
        ans1 == IF hit THEN <<characters[i], characters[j]>> ELSE ans
        innerEnds == j = Len(characters)
    IN  IF ~innerEnds
        THEN [answer |-> ans1, c1 |-> i, c2 |-> j + 1, done |-> FALSE]
        ELSE IF ans1 # <<>> \/ i = Len(characters)
             THEN [answer |-> ans1, c1 |-> i, c2 |-> j, done |-> TRUE]
             ELSE [answer |-> ans1, c1 |-> i + 1, c2 |-> 1, done |-> FALSE]

\* One pass of the body of the inner loop (lines 102-107) at characters
\* c1 = characters[i], c2 = characters[j], with what the two `for` statements
\* and the two `break`s do next: [answer, c1, c2, done].
PowIteration(base, hash, i, j, ans) ==
    LET c == base \o <<characters[i]>> \o <<characters[j]>>
        hit == sha256(c) = hash
        ans1 == IF hit THEN <<characters[i], characters[j]>> ELSE ans
        innerEnds == hit \/ j = Len(characters)
    IN  IF ~innerEnds
        THEN [answer |-> ans1, c1 |-> i, c2 |-> j + 1, done |-> FALSE]
        ELSE IF ans1 # <<>> \/ i = Len(characters)
             THEN [answer |-> ans1, c1 |-> i, c2 |-> j, done |-> TRUE]
             ELSE [answer |-> ans1, c1 |-> i + 1, c2 |-> 1, done |-> FALSE]

----------------------------------------------------------------------------
(* Package (lines 31-64).  A function's outcome is a record [exc, ret]: exc *)
(* is the exception that left the function ("" if none).                    *)

Return(v) == [exc |-> "", ret |-> v]
Raised(e) == [exc |-> e, ret |-> None]

\* A Python str where the value may be None as well.
Str(s) == [kind |-> "str", s |-> s]

\* The characters \d matches in a str pattern and int() reads, the Unicode
\* decimal digits: one row per script, the digits 0 to 9 in order.
DecimalDigits ==
    <<<<"0", "1", "2", "3", "4", "5", "6", "7", "8", "9">>,
      <<"\\u0660", "\\u0661", "\\u0662", "\\u0663", "\\u0664", "\\u0665", "\\u0666", "\\u0667", "\\u0668", "\\u0669">>,
      <<"\\u06f0", "\\u06f1", "\\u06f2", "\\u06f3", "\\u06f4", "\\u06f5", "\\u06f6", "\\u06f7", "\\u06f8", "\\u06f9">>,
      <<"\\u07c0", "\\u07c1", "\\u07c2", "\\u07c3", "\\u07c4", "\\u07c5", "\\u07c6", "\\u07c7", "\\u07c8", "\\u07c9">>,
      <<"\\u0966", "\\u0967", "\\u0968", "\\u0969", "\\u096a", "\\u096b", "\\u096c", "\\u096d", "\\u096e", "\\u096f">>,
      <<"\\u09e6", "\\u09e7", "\\u09e8", "\\u09e9", "\\u09ea", "\\u09eb", "\\u09ec", "\\u09ed", "\\u09ee", "\\u09ef">>,
      <<"\\u0a66", "\\u0a67", "\\u0a68", "\\u0a69", "\\u0a6a", "\\u0a6b", "\\u0a6c", "\\u0a6d", "\\u0a6e", "\\u0a6f">>,
      <<"\\u0ae6", "\\u0ae7", "\\u0ae8", "\\u0ae9", "\\u0aea", "\\u0aeb", "\\u0aec", "\\u0aed", "\\u0aee", "\\u0aef">>,
      <<"\\u0b66", "\\u0b67", "\\u0b68", "\\u0b69", "\\u0b6a", "\\u0b6b", "\\u0b6c", "\\u0b6d", "\\u0b6e", "\\u0b6f">>,
      <<"\\u0be6", "\\u0be7", "\\u0be8", "\\u0be9", "\\u0bea", "\\u0beb", "\\u0bec", "\\u0bed", "\\u0bee", "\\u0bef">>,
      <<"\\u0c66", "\\u0c67", "\\u0c68", "\\u0c69", "\\u0c6a", "\\u0c6b", "\\u0c6c", "\\u0c6d", "\\u0c6e", "\\u0c6f">>,
      <<"\\u0ce6", "\\u0ce7", "\\u0ce8", "\\u0ce9", "\\u0cea", "\\u0ceb", "\\u0cec", "\\u0ced", "\\u0cee", "\\u0cef">>,
      <<"\\u0d66", "\\u0d67", "\\u0d68", "\\u0d69", "\\u0d6a", "\\u0d6b", "\\u0d6c", "\\u0d6d", "\\u0d6e", "\\u0d6f">>,
      <<"\\u0de6", "\\u0de7", "\\u0de8", "\\u0de9", "\\u0dea", "\\u0deb", "\\u0dec", "\\u0ded", "\\u0dee", "\\u0def">>,
      <<"\\u0e50", "\\u0e51", "\\u0e52", "\\u0e53", "\\u0e54", "\\u0e55", "\\u0e56", "\\u0e57", "\\u0e58", "\\u0e59">>,
      <<"\\u0ed0", "\\u0ed1", "\\u0ed2", "\\u0ed3", "\\u0ed4", "\\u0ed5", "\\u0ed6", "\\u0ed7", "\\u0ed8", "\\u0ed9">>,
      <<"\\u0f20", "\\u0f21", "\\u0f22", "\\u0f23", "\\u0f24", "\\u0f25", "\\u0f26", "\\u0f27", "\\u0f28", "\\u0f29">>,
      <<"\\u1040", "\\u1041", "\\u1042", "\\u1043", "\\u1044", "\\u1045", "\\u1046", "\\u1047", "\\u1048", "\\u1049">>,
      <<"\\u1090", "\\u1091", "\\u1092", "\\u1093", "\\u1094", "\\u1095", "\\u1096", "\\u1097", "\\u1098", "\\u1099">>,
      <<"\\u17e0", "\\u17e1", "\\u17e2", "\\u17e3", "\\u17e4", "\\u17e5", "\\u17e6", "\\u17e7", "\\u17e8", "\\u17e9">>,
      <<"\\u1810", "\\u1811", "\\u1812", "\\u1813", "\\u1814", "\\u1815", "\\u1816", "\\u1817", "\\u1818", "\\u1819">>,
      <<"\\u1946", "\\u1947", "\\u1948", "\\u1949", "\\u194a", "\\u194b", "\\u194c", "\\u194d", "\\u194e", "\\u194f">>,
      <<"\\u19d0", "\\u19d1", "\\u19d2", "\\u19d3", "\\u19d4", "\\u19d5", "\\u19d6", "\\u19d7", "\\u19d8", "\\u19d9">>,
      <<"\\u1a80", "\\u1a81", "\\u1a82", "\\u1a83", "\\u1a84", "\\u1a85", "\\u1a86", "\\u1a87", "\\u1a88", "\\u1a89">>,
      <<"\\u1a90", "\\u1a91", "\\u1a92", "\\u1a93", "\\u1a94", "\\u1a95", "\\u1a96", "\\u1a97", "\\u1a98", "\\u1a99">>,
      <<"\\u1b50", "\\u1b51", "\\u1b52", "\\u1b53", "\\u1b54", "\\u1b55", "\\u1b56", "\\u1b57", "\\u1b58", "\\u1b59">>,
      <<"\\u1bb0", "\\u1bb1", "\\u1bb2", "\\u1bb3", "\\u1bb4", "\\u1bb5", "\\u1bb6", "\\u1bb7", "\\u1bb8", "\\u1bb9">>,
      <<"\\u1c40", "\\u1c41", "\\u1c42", "\\u1c43", "\\u1c44", "\\u1c45", "\\u1c46", "\\u1c47", "\\u1c48", "\\u1c49">>,
      <<"\\u1c50", "\\u1c51", "\\u1c52", "\\u1c53", "\\u1c54", "\\u1c55", "\\u1c56", "\\u1c57", "\\u1c58", "\\u1c59">>,
      <<"\\ua620", "\\ua621", "\\ua622", "\\ua623", "\\ua624", "\\ua625", "\\ua626", "\\ua627", "\\ua628", "\\ua629">>,
      <<"\\ua8d0", "\\ua8d1", "\\ua8d2", "\\ua8d3", "\\ua8d4", "\\ua8d5", "\\ua8d6", "\\ua8d7", "\\ua8d8", "\\ua8d9">>,
      <<"\\ua900", "\\ua901", "\\ua902", "\\ua903", "\\ua904", "\\ua905", "\\ua906", "\\ua907", "\\ua908", "\\ua909">>,
      <<"\\ua9d0", "\\ua9d1", "\\ua9d2", "\\ua9d3", "\\ua9d4", "\\ua9d5", "\\ua9d6", "\\ua9d7", "\\ua9d8", "\\ua9d9">>,
      <<"\\ua9f0", "\\ua9f1", "\\ua9f2", "\\ua9f3", "\\ua9f4", "\\ua9f5", "\\ua9f6", "\\ua9f7", "\\ua9f8", "\\ua9f9">>,
      <<"\\uaa50", "\\uaa51", "\\uaa52", "\\uaa53", "\\uaa54", "\\uaa55", "\\uaa56", "\\uaa57", "\\uaa58", "\\uaa59">>,
      <<"\\uabf0", "\\uabf1", "\\uabf2", "\\uabf3", "\\uabf4", "\\uabf5", "\\uabf6", "\\uabf7", "\\uabf8", "\\uabf9">>,
      <<"\\uff10", "\\uff11", "\\uff12", "\\uff13", "\\uff14", "\\uff15", "\\uff16", "\\uff17", "\\uff18", "\\uff19">>,
      <<"\\U000104a0", "\\U000104a1", "\\U000104a2", "\\U000104a3", "\\U000104a4", "\\U000104a5", "\\U000104a6", "\\U000104a7", "\\U000104a8", "\\U000104a9">>,
      <<"\\U00010d30", "\\U00010d31", "\\U00010d32", "\\U00010d33", "\\U00010d34", "\\U00010d35", "\\U00010d36", "\\U00010d37", "\\U00010d38", "\\U00010d39">>,
      <<"\\U00011066", "\\U00011067", "\\U00011068", "\\U00011069", "\\U0001106a", "\\U0001106b", "\\U0001106c", "\\U0001106d", "\\U0001106e", "\\U0001106f">>,
      <<"\\U000110f0", "\\U000110f1", "\\U000110f2", "\\U000110f3", "\\U000110f4", "\\U000110f5", "\\U000110f6", "\\U000110f7", "\\U000110f8", "\\U000110f9">>,
      <<"\\U00011136", "\\U00011137", "\\U00011138", "\\U00011139", "\\U0001113a", "\\U0001113b", "\\U0001113c", "\\U0001113d", "\\U0001113e", "\\U0001113f">>,
      <<"\\U000111d0", "\\U000111d1", "\\U000111d2", "\\U000111d3", "\\U000111d4", "\\U000111d5", "\\U000111d6", "\\U000111d7", "\\U000111d8", "\\U000111d9">>,
      <<"\\U000112f0", "\\U000112f1", "\\U000112f2", "\\U000112f3", "\\U000112f4", "\\U000112f5", "\\U000112f6", "\\U000112f7", "\\U000112f8", "\\U000112f9">>,
      <<"\\U00011450", "\\U00011451", "\\U00011452", "\\U00011453", "\\U00011454", "\\U00011455", "\\U00011456", "\\U00011457", "\\U00011458", "\\U00011459">>,
      <<"\\U000114d0", "\\U000114d1", "\\U000114d2", "\\U000114d3", "\\U000114d4", "\\U000114d5", "\\U000114d6", "\\U000114d7", "\\U000114d8", "\\U000114d9">>,
      <<"\\U00011650", "\\U00011651", "\\U00011652", "\\U00011653", "\\U00011654", "\\U00011655", "\\U00011656", "\\U00011657", "\\U00011658", "\\U00011659">>,
      <<"\\U000116c0", "\\U000116c1", "\\U000116c2", "\\U000116c3", "\\U000116c4", "\\U000116c5", "\\U000116c6", "\\U000116c7", "\\U000116c8", "\\U000116c9">>,
      <<"\\U00011730", "\\U00011731", "\\U00011732", "\\U00011733", "\\U00011734", "\\U00011735", "\\U00011736", "\\U00011737", "\\U00011738", "\\U00011739">>,
      <<"\\U000118e0", "\\U000118e1", "\\U000118e2", "\\U000118e3", "\\U000118e4", "\\U000118e5", "\\U000118e6", "\\U000118e7", "\\U000118e8", "\\U000118e9">>,
      <<"\\U00011950", "\\U00011951", "\\U00011952", "\\U00011953", "\\U00011954", "\\U00011955", "\\U00011956", "\\U00011957", "\\U00011958", "\\U00011959">>,
      <<"\\U00011c50", "\\U00011c51", "\\U00011c52", "\\U00011c53", "\\U00011c54", "\\U00011c55", "\\U00011c56", "\\U00011c57", "\\U00011c58", "\\U00011c59">>,
      <<"\\U00011d50", "\\U00011d51", "\\U00011d52", "\\U00011d53", "\\U00011d54", "\\U00011d55", "\\U00011d56", "\\U00011d57", "\\U00011d58", "\\U00011d59">>,
      <<"\\U00011da0", "\\U00011da1", "\\U00011da2", "\\U00011da3", "\\U00011da4", "\\U00011da5", "\\U00011da6", "\\U00011da7", "\\U00011da8", "\\U00011da9">>,
      <<"\\U00016a60", "\\U00016a61", "\\U00016a62", "\\U00016a63", "\\U00016a64", "\\U00016a65", "\\U00016a66", "\\U00016a67", "\\U00016a68", "\\U00016a69">>,
      <<"\\U00016ac0", "\\U00016ac1", "\\U00016ac2", "\\U00016ac3", "\\U00016ac4", "\\U00016ac5", "\\U00016ac6", "\\U00016ac7", "\\U00016ac8", "\\U00016ac9">>,
      <<"\\U00016b50", "\\U00016b51", "\\U00016b52", "\\U00016b53", "\\U00016b54", "\\U00016b55", "\\U00016b56", "\\U00016b57", "\\U00016b58", "\\U00016b59">>,
      <<"\\U0001d7ce", "\\U0001d7cf", "\\U0001d7d0", "\\U0001d7d1", "\\U0001d7d2", "\\U0001d7d3", "\\U0001d7d4", "\\U0001d7d5", "\\U0001d7d6", "\\U0001d7d7">>,
      <<"\\U0001d7d8", "\\U0001d7d9", "\\U0001d7da", "\\U0001d7db", "\\U0001d7dc", "\\U0001d7dd", "\\U0001d7de", "\\U0001d7df", "\\U0001d7e0", "\\U0001d7e1">>,
      <<"\\U0001d7e2", "\\U0001d7e3", "\\U0001d7e4", "\\U0001d7e5", "\\U0001d7e6", "\\U0001d7e7", "\\U0001d7e8", "\\U0001d7e9", "\\U0001d7ea", "\\U0001d7eb">>,
      <<"\\U0001d7ec", "\\U0001d7ed", "\\U0001d7ee", "\\U0001d7ef", "\\U0001d7f0", "\\U0001d7f1", "\\U0001d7f2", "\\U0001d7f3", "\\U0001d7f4", "\\U0001d7f5">>,
      <<"\\U0001d7f6", "\\U0001d7f7", "\\U0001d7f8", "\\U0001d7f9", "\\U0001d7fa", "\\U0001d7fb", "\\U0001d7fc", "\\U0001d7fd", "\\U0001d7fe", "\\U0001d7ff">>,
      <<"\\U0001e140", "\\U0001e141", "\\U0001e142", "\\U0001e143", "\\U0001e144", "\\U0001e145", "\\U0001e146", "\\U0001e147", "\\U0001e148", "\\U0001e149">>,
      <<"\\U0001e2f0", "\\U0001e2f1", "\\U0001e2f2", "\\U0001e2f3", "\\U0001e2f4", "\\U0001e2f5", "\\U0001e2f6", "\\U0001e2f7", "\\U0001e2f8", "\\U0001e2f9">>,
      <<"\\U0001e950", "\\U0001e951", "\\U0001e952", "\\U0001e953", "\\U0001e954", "\\U0001e955", "\\U0001e956", "\\U0001e957", "\\U0001e958", "\\U0001e959">>,
      <<"\\U0001fbf0", "\\U0001fbf1", "\\U0001fbf2", "\\U0001fbf3", "\\U0001fbf4", "\\U0001fbf5", "\\U0001fbf6", "\\U0001fbf7", "\\U0001fbf8", "\\U0001fbf9">>>>

DigitSet == {DecimalDigits[r][n] : r \in 1..Len(DecimalDigits), n \in 1..10}
IsDigit(ch) == ch \in DigitSet
DigitValue(ch) ==
    (CHOOSE n \in 1..10 : \E r \in 1..Len(DecimalDigits) : DecimalDigits[r][n] = ch) - 1

\* [lo-hi] of a regular expression: an ASCII digit with a value in lo..hi
AsciiDigit(ch, lo, hi) == \E n \in lo..hi : DecimalDigits[1][n + 1] = ch

AllDigits(s) == \A i \in 1..Len(s) : IsDigit(s[i])

\* int(s) for a string of decimal digits
RECURSIVE IntOf(_)
IntOf(s) ==
    IF Len(s) = 0 THEN 0
    ELSE 10 * IntOf(SubSeq(s, 1, Len(s) - 1)) + DigitValue(s[Len(s)])

\* The first position in s of a character of chs, 0 if there is none.
FindAny(s, chs) ==
    IF \E i \in 1..Len(s) : s[i] \in chs
    THEN CHOOSE i \in 1..Len(s) :
            s[i] \in chs /\ \A k \in 1..(i - 1) : s[k] \notin chs
    ELSE 0

\* The length of the run of digits s starts with.
RECURSIVE DigitRun(_)
DigitRun(s) ==
    IF Len(s) = 0 \/ ~IsDigit(s[1]) THEN 0 ELSE 1 + DigitRun(Tail(s))

\* s without its character at position i
DropAt(s, i) == SubSeq(s, 1, i - 1) \o SubSeq(s, i + 1, Len(s))

\* What the regular expressions of the numeric directives match as a whole
\* field.  %m is 1[0-2]|0[1-9]|[1-9].
Month(f) ==
    \/ Len(f) = 2 /\ f[1] = "1" /\ AsciiDigit(f[2], 0, 2)
    \/ Len(f) = 2 /\ f[1] = "0" /\ AsciiDigit(f[2], 1, 9)
    \/ Len(f) = 1 /\ AsciiDigit(f[1], 1, 9)

\* %d is 3[0-1]|[1-2]\d|0[1-9]|[1-9]| [1-9].
DayField(f) ==
    \/ Len(f) = 2 /\ f[1] = "3" /\ AsciiDigit(f[2], 0, 1)
    \/ Len(f) = 2 /\ AsciiDigit(f[1], 1, 2) /\ IsDigit(f[2])
    \/ Len(f) = 2 /\ f[1] = "0" /\ AsciiDigit(f[2], 1, 9)
    \/ Len(f) = 1 /\ AsciiDigit(f[1], 1, 9)
    \/ Len(f) = 2 /\ f[1] = " " /\ AsciiDigit(f[2], 1, 9)

\* %H is 2[0-3]|[0-1]\d|\d.
Hour(f) ==
    \/ Len(f) = 2 /\ f[1] = "2" /\ AsciiDigit(f[2], 0, 3)
    \/ Len(f) = 2 /\ AsciiDigit(f[1], 0, 1) /\ IsDigit(f[2])
    \/ Len(f) = 1 /\ IsDigit(f[1])

\* %M is [0-5]\d|\d.
Minute(f) ==
    \/ Len(f) = 2 /\ AsciiDigit(f[1], 0, 5) /\ IsDigit(f[2])
    \/ Len(f) = 1 /\ IsDigit(f[1])

\* %S is 6[0-1]|[0-5]\d|\d.
Second(f) ==
    \/ Len(f) = 2 /\ f[1] = "6" /\ AsciiDigit(f[2], 0, 1)
    \/ Len(f) = 2 /\ AsciiDigit(f[1], 0, 5) /\ IsDigit(f[2])
    \/ Len(f) = 1 /\ IsDigit(f[1])

\* The days of month m of year y.
DaysIn(y, m) ==
    IF m = 2
    THEN IF (y % 4 = 0 /\ y % 100 # 0) \/ y % 400 = 0 THEN 29 ELSE 28
    ELSE IF m \in {4, 6, 9, 11} THEN 30 ELSE 31

\* %z is [+-]\d\d:?[0-5]\d(:?[0-5]\d(\.\d{1,6})?)?|Z, with ":" between
\* all the parts or between none (the code after the match); the offset has
\* to be less than 24 hours.  The outcome is the offset in seconds and
\* microseconds.
utcoffset(z) ==
    IF z = <<"Z">> THEN Return([seconds |-> 0, microseconds |-> 0])
    ELSE IF Len(z) = 0 \/ z[1] \notin {"+", "-"} THEN Raised("ValueError")
    ELSE
    LET b == Tail(z)
        colons == Len(b) >= 3 /\ b[3] = ":"
        shaped == IF colons
                  THEN \/ Len(b) = 5
                       \/ Len(b) = 8 /\ b[6] = ":"
                       \/ Len(b) \in 10..15 /\ b[6] = ":" /\ b[9] = "."
                  ELSE \/ Len(b) \in {4, 6}
                       \/ Len(b) \in 8..13 /\ b[7] = "."
        c == IF ~colons THEN b
             ELSE IF Len(b) = 5 THEN DropAt(b, 3)
             ELSE DropAt(DropAt(b, 3), 5)
        hh == SubSeq(c, 1, 2)
        mm == SubSeq(c, 3, 4)
        ss == IF Len(c) >= 6 THEN SubSeq(c, 5, 6) ELSE <<"0", "0">>
        frac == IF Len(c) >= 8 THEN SubSeq(c, 8, Len(c)) ELSE <<>>
        sign == IF z[1] = "-" THEN 0 - 1 ELSE 1
        scale == [n \in 0..6 |->
                    IF n = 0 THEN 0 ELSE
                    IF n = 1 THEN 100000 ELSE IF n = 2 THEN 10000 ELSE
                    IF n = 3 THEN 1000 ELSE IF n = 4 THEN 100 ELSE
                    IF n = 5 THEN 10 ELSE 1]
    IN  IF /\ shaped
           /\ AllDigits(hh) /\ AllDigits(mm) /\ AllDigits(ss) /\ AllDigits(frac)
           /\ AsciiDigit(mm[1], 0, 5) /\ AsciiDigit(ss[1], 0, 5)
           /\ IntOf(hh) <= 23
        THEN Return([seconds |-> sign * (IntOf(hh) * 3600 + IntOf(mm) * 60
                                           + IntOf(ss)),
                     microseconds |-> sign * IntOf(frac) * scale[Len(frac)]])
        ELSE Raised("ValueError")

\* datetime.strptime(s, "%Y-%m-%dT%H:%M:%S%z") (line 43): the datetime of a
\* string that matches the format as a whole and names a date and an offset
\* that exist, and ValueError for every other string.  The "T" matches in
\* either case.
strptime(s) ==
    LET afterY == SubSeq(s, 6, Len(s))
        pm == FindAny(afterY, {"-"})
        m == SubSeq(afterY, 1, pm - 1)
        afterM == SubSeq(afterY, pm + 1, Len(afterY))
        pd == FindAny(afterM, {"T", "t"})
        d == SubSeq(afterM, 1, pd - 1)
        afterD == SubSeq(afterM, pd + 1, Len(afterM))
        pH == FindAny(afterD, {":"})
        H == SubSeq(afterD, 1, pH - 1)
        afterH == SubSeq(afterD, pH + 1, Len(afterD))
        pM == FindAny(afterH, {":"})
        M == SubSeq(afterH, 1, pM - 1)
        afterMin == SubSeq(afterH, pM + 1, Len(afterH))
        S == SubSeq(afterMin, 1, DigitRun(afterMin))
        z == SubSeq(afterMin, DigitRun(afterMin) + 1, Len(afterMin))
        year == IntOf(SubSeq(s, 1, 4))
        day == IF d[1] = " " THEN IntOf(Tail(d)) ELSE IntOf(d)
    IN  IF /\ Len(s) >= 5 /\ AllDigits(SubSeq(s, 1, 4)) /\ s[5] = "-"
           /\ pm > 0 /\ Month(m)
           /\ pd > 0 /\ DayField(d)
           /\ pH > 0 /\ Hour(H)
           /\ pM > 0 /\ Minute(M)
           /\ Second(S)
           /\ utcoffset(z).exc = ""
           /\ year >= 1
           /\ day <= DaysIn(year, IntOf(m))
           /\ IntOf(S) <= 59
        THEN Return([year |-> year, month |-> IntOf(m), day |-> day,
                     hour |-> IntOf(H), minute |-> IntOf(M),
                     second |-> IntOf(S), utcoffset |-> utcoffset(z).ret])
        ELSE Raised("ValueError")

\* config.link_defualt_format.format(package=self) (lines 25, 42)
link_defualt_format(name) == "https://pypi.org/project/" \o Join(name)

\* Package(name, version, released, description, link) after __post_init__
\* (lines 41-48): link is None, "" or a URL, and the first two give the
\* default link; released is parsed, which raises ValueError for a string
\* that is no date of the format; the enrichment fields start at their
\* defaults.
Package(name, version, released, description, link) ==
    LET released_date == strptime(released)
    IN  IF released_date.exc # "" THEN released_date
        ELSE Return(
            [name |-> name, version |-> version, released |-> released,
             description |-> description,
             link |-> IF link = None \/ link.s = ""
                      THEN link_defualt_format(name)
                      ELSE link.s,
             released_date |-> released_date.ret,
             stars |-> 0, forks |-> 0, watchers |-> 0, github_link |-> <<>>,
             info_set |-> FALSE])

\* Package.set_gh_info (lines 59-64)
set_gh_info(p, i) ==
    [p EXCEPT !.stars = i.stars, !.forks = i.forks, !.watchers = i.watchers,
              !.github_link = i.github_link, !.info_set = TRUE]

----------------------------------------------------------------------------
(* urllib.parse.urljoin (line 142), with urlparse, urlsplit and urlunparse *)
(* as it calls them.                                                       *)

\* _WHATWG_C0_CONTROL_OR_SPACE: what urlsplit strips from the left of a URL
C0_CONTROL_OR_SPACE ==
    {"\\x00", "\\x01", "\\x02", "\\x03", "\\x04", "\\x05", "\\x06", "\\x07",
     "\\x08", "\t", "\n", "\\x0b", "\f", "\r", "\\x0e", "\\x0f", "\\x10",
     "\\x11", "\\x12", "\\x13", "\\x14", "\\x15", "\\x16", "\\x17", "\\x18",
     "\\x19", "\\x1a", "\\x1b", "\\x1c", "\\x1d", "\\x1e", "\\x1f", " "}

\* _UNSAFE_URL_BYTES_TO_REMOVE: what urlsplit removes from a URL
UNSAFE_URL_BYTES_TO_REMOVE == {"\t", "\r", "\n"}

\* scheme_chars: the characters of a scheme
scheme_chars == {characters[i] : i \in 1..Len(characters)} \cup {"+", "-", "."}

uses_relative ==
    {"", "ftp", "http", "gopher", "nntp", "imap", "wais", "file", "https",
     "shttp", "mms", "prospero", "rtsp", "rtsps", "rtspu", "sftp", "svn",
     "svn+ssh", "ws", "wss"}
uses_netloc ==
    {"", "ftp", "http", "gopher", "nntp", "telnet", "imap", "wais", "file",
     "mms", "https", "shttp", "snews", "prospero", "rtsp", "rtsps", "rtspu",
     "rsync", "svn", "svn+ssh", "sftp", "nfs", "git", "git+ssh", "ws", "wss"}
uses_params ==
    {"", "ftp", "hdl", "prospero", "http", "imap", "https", "shttp", "rtsp",
     "rtsps", "rtspu", "sip", "sips", "mms", "sftp", "tel"}

\* The characters whose NFKC form holds one of / ? # @ : (_checknetloc).
NetlocInvalid ==
    {"\\u2047", "\\u2048", "\\u2049", "\\u2100", "\\u2101", "\\u2105",
     "\\u2106", "\\u2a74", "\\ufe13", "\\ufe16", "\\ufe55", "\\ufe56",
     "\\ufe5f", "\\ufe6b", "\\uff03", "\\uff0f", "\\uff1a", "\\uff1f",
     "\\uff20"}

\* ipaddress._BaseV6._HEX_DIGITS
HEX_DIGITS ==
    {"0", "1", "2", "3", "4", "5", "6", "7", "8", "9",
     "A", "B", "C", "D", "E", "F", "a", "b", "c", "d", "e", "f"}

\* ch.lower() for a character of a scheme
AsciiLower(ch) ==
    IF \E i \in 27..52 : characters[i] = ch
    THEN characters[(CHOOSE i \in 27..52 : characters[i] = ch) - 26]
    ELSE ch

\* s.lower() for the characters of a scheme
Lower(s) == [i \in 1..Len(s) |-> AsciiLower(s[i])]

\* s.lstrip(chs)
RECURSIVE LStripChars(_, _)
LStripChars(s, chs) ==
    IF Len(s) > 0 /\ s[1] \in chs THEN LStripChars(Tail(s), chs) ELSE s

\* s without its characters of chs
RemoveChars(s, chs) ==
    LET Keep(ch) == ch \notin chs IN SelectSeq(s, Keep)

\* sep.join(parts)
RECURSIVE JoinWith(_, _)
JoinWith(parts, sep) ==
    IF Len(parts) = 0 THEN <<>>
    ELSE IF Len(parts) = 1 THEN parts[1]
    ELSE parts[1] \o sep \o JoinWith(Tail(parts), sep)

\* The octets of ipaddress.IPv4Address: four, decimal, up to 255, of ASCII
\* digits, without leading zeros.
V4Octets(octets) ==
    LET Octet(o) ==
            /\ Len(o) \in 1..3
            /\ \A k \in 1..Len(o) : AsciiDigit(o[k], 0, 9)
            /\ o = <<"0">> \/ o[1] # "0"
            /\ IntOf(o) <= 255
    IN  /\ Len(octets) = 4
        /\ \A i \in 1..4 : Octet(octets[i])

\* ipaddress.IPv4Address(s) accepts s.
IsIPv4(s) == Len(s) > 0 /\ V4Octets(Split(s, <<".">>))

\* The groups of ipaddress.IPv6Address, an IPv4 address at the end already
\* replaced by two groups: up to eight groups of one to four hex digits,
\* "::" at most once for the groups left out.
V6Hextets(parts) ==
    LET n == Len(parts)
        skips == {i \in 2..(n - 1) : Len(parts[i]) = 0}
        skip == CHOOSE i \in skips : TRUE
        hi == IF Len(parts[1]) = 0 THEN skip - 2 ELSE skip - 1
        lo == IF Len(parts[n]) = 0 THEN n - skip - 1 ELSE n - skip
        Hextet(x) == Len(x) \in 1..4 /\ \A k \in 1..Len(x) : x[k] \in HEX_DIGITS
    IN  /\ n <= 9
        /\ Cardinality(skips) <= 1
        /\ IF skips # {}
           THEN /\ Len(parts[1]) = 0 => hi = 0
                /\ Len(parts[n]) = 0 => lo = 0
                /\ hi + lo <= 7
                /\ \A i \in 1..hi : Hextet(parts[i])
                /\ \A i \in (n - lo + 1)..n : Hextet(parts[i])
           ELSE /\ n = 8
                /\ \A i \in 1..8 : Hextet(parts[i])

\* The parts between the ":" of ipaddress.IPv6Address: at least three, and
\* an IPv4 address may stand for the last two groups.
V6Groups(parts) ==
    LET last == parts[Len(parts)]
        v4 == FindAny(last, {"."}) > 0
    IN  /\ Len(parts) >= 3
        /\ v4 => IsIPv4(last)
        /\ V6Hextets(IF v4
                     THEN SubSeq(parts, 1, Len(parts) - 1) \o << <<"0">>, <<"0">> >>
                     ELSE parts)

\* ipaddress.IPv6Address(h) accepts h: the groups, and a scope id after "%".
IsIPv6(h) ==
    LET pct == FindAny(h, {"%"})
        addr == IF pct = 0 THEN h ELSE SubSeq(h, 1, pct - 1)
        scope == IF pct = 0 THEN <<>> ELSE SubSeq(h, pct + 1, Len(h))
    IN  /\ pct = 0 \/ (Len(scope) > 0 /\ FindAny(scope, {"%"}) = 0)
        /\ Len(addr) > 0
        /\ V6Groups(Split(addr, <<":">>))

\* The length of the run of hex digits s starts with.
RECURSIVE HexRun(_)
HexRun(s) ==
    IF Len(s) = 0 \/ s[1] \notin HEX_DIGITS THEN 0 ELSE 1 + HexRun(Tail(s))

\* _check_bracketed_host accepts h: an IPvFuture address, "v", hex digits,
\* "." and at least one more character, or an IPv6 address.
BracketedHostOk(h) ==
    IF Len(h) > 0 /\ h[1] = "v"
    THEN LET r == HexRun(Tail(h))
         IN  r >= 1 /\ Len(h) >= r + 3 /\ h[r + 2] = "."
    ELSE IsIPv6(h)

\* What urlsplit requires of a netloc: brackets in pairs, an address between
\* them (_check_bracketed_host), and no character that normalises to a
\* delimiter (_checknetloc).
NetlocOk(netloc) ==
    LET lbracket == FindAny(netloc, {"["})
        afterBracket == SubSeq(netloc, lbracket + 1, Len(netloc))
        rbracket == FindAny(afterBracket, {"]"})
    IN  /\ (lbracket > 0) = (FindAny(netloc, {"]"}) > 0)
        /\ lbracket > 0 =>
              BracketedHostOk(IF rbracket = 0 THEN afterBracket
                              ELSE SubSeq(afterBracket, 1, rbracket - 1))
        /\ \A k \in 1..Len(netloc) : netloc[k] \notin NetlocInvalid

\* The end of urlsplit, for what follows the netloc: the fragment after
\* "#", the query after "?", and the checks of the netloc.
SplitFragment(url, scheme, netloc) ==
    LET sharp == FindAny(url, {"#"})
        u == IF sharp = 0 THEN url ELSE SubSeq(url, 1, sharp - 1)
        mark == FindAny(u, {"?"})
    IN  IF ~NetlocOk(netloc)
        THEN Raised("ValueError")
        ELSE Return([scheme |-> scheme, netloc |-> netloc,
                     path |-> IF mark = 0 THEN u ELSE SubSeq(u, 1, mark - 1),
                     query |-> IF mark = 0 THEN <<>>
                               ELSE SubSeq(u, mark + 1, Len(u)),
                     fragment |-> IF sharp = 0 THEN <<>>
                                  ELSE SubSeq(url, sharp + 1, Len(url))])

\* urlsplit for what follows the scheme: after "//", the netloc up to the
\* first of / ? #.
SplitNetloc(url, scheme) ==
    LET slashes == Len(url) >= 2 /\ url[1] = "/" /\ url[2] = "/"
        afterSlashes == SubSeq(url, 3, Len(url))
        delim == IF FindAny(afterSlashes, {"/", "?", "#"}) = 0
                 THEN Len(afterSlashes) + 1
                 ELSE FindAny(afterSlashes, {"/", "?", "#"})
    IN  SplitFragment(IF slashes
                      THEN SubSeq(afterSlashes, delim, Len(afterSlashes))
                      ELSE url,
                      scheme,
                      IF slashes THEN SubSeq(afterSlashes, 1, delim - 1)
                      ELSE <<>>)

\* The position of the ":" that ends the scheme url starts with, 0 when url
\* starts with no scheme: an ASCII letter, then characters of scheme_chars.
SchemeEnd(url) ==
    LET colon == FindAny(url, {":"})
    IN  IF /\ colon > 1
           /\ \E i \in 1..52 : characters[i] = url[1]
           /\ \A k \in 1..(colon - 1) : url[k] \in scheme_chars
        THEN colon
        ELSE 0

\* urlsplit for a url already stripped: the scheme, in lower case, or the
\* default scheme.
SplitScheme(url, scheme) ==
    LET colon == SchemeEnd(url)
    IN  SplitNetloc(SubSeq(url, colon + 1, Len(url)),
                    IF colon > 0 THEN Lower(SubSeq(url, 1, colon - 1))
                    ELSE scheme)

\* urlsplit(url, scheme): Return([scheme, netloc, path, query, fragment]), or
\* ValueError for a netloc with unmatched brackets, with a bracketed host
\* that is no address, or with a character that normalises to a delimiter.
urlsplit(url, scheme) ==
    SplitScheme(RemoveChars(LStripChars(url, C0_CONTROL_OR_SPACE),
                            UNSAFE_URL_BYTES_TO_REMOVE),
                scheme)

\* s.rfind(ch): the last position of ch in s, 0 if there is none
RFind(s, ch) ==
    IF \E i \in 1..Len(s) : s[i] = ch
    THEN CHOOSE i \in 1..Len(s) :
            s[i] = ch /\ \A k \in (i + 1)..Len(s) : s[k] # ch
    ELSE 0

\* _splitparams for the result sp of urlsplit: the params after the first
\* ";" of the last segment of the path, for the schemes that have them.
SplitParams(sp) ==
    LET lastSlash == RFind(sp.path, "/")
        semi == IF FindAny(SubSeq(sp.path, lastSlash + 1, Len(sp.path)), {";"}) = 0
                THEN 0
                ELSE lastSlash
                       + FindAny(SubSeq(sp.path, lastSlash + 1, Len(sp.path)), {";"})
        split == Join(sp.scheme) \in uses_params /\ semi > 0
    IN  [scheme |-> sp.scheme, netloc |-> sp.netloc,
         path |-> IF split THEN SubSeq(sp.path, 1, semi - 1) ELSE sp.path,
         params |-> IF split THEN SubSeq(sp.path, semi + 1, Len(sp.path))
                    ELSE <<>>,
         query |-> sp.query, fragment |-> sp.fragment]

\* The outcome of urlparse for the outcome sp of urlsplit.
Parsed(sp) == IF sp.exc # "" THEN sp ELSE Return(SplitParams(sp.ret))

\* urlparse(url, scheme): urlsplit, and the params taken off the path.
urlparse(url, scheme) == Parsed(urlsplit(url, scheme))

\* urlunparse((scheme, netloc, path, params, query, fragment))
urlunparse(scheme, netloc, upath, params, uquery, fragment) ==
    LET u1 == IF Len(params) > 0 THEN upath \o <<";">> \o params ELSE upath
        slashes == Len(u1) >= 2 /\ u1[1] = "/" /\ u1[2] = "/"
        u2 == IF Len(netloc) > 0
                 \/ (Len(scheme) > 0 /\ Join(scheme) \in uses_netloc /\ ~slashes)
              THEN <<"/", "/">> \o netloc
                     \o (IF Len(u1) > 0 /\ u1[1] # "/" THEN <<"/">> ELSE <<>>)
                     \o u1
              ELSE u1
        u3 == IF Len(scheme) > 0 THEN scheme \o <<":">> \o u2 ELSE u2
        u4 == IF Len(uquery) > 0 THEN u3 \o <<"?">> \o uquery ELSE u3
    IN  IF Len(fragment) > 0 THEN u4 \o <<"#">> \o fragment ELSE u4

\* The for loop of urljoin over the segments: ".." takes the last
\* resolved segment off, when there is one, and "." is left out.
RECURSIVE Resolve(_, _)
Resolve(segments, resolved) ==
    IF Len(segments) = 0 THEN resolved
    ELSE IF segments[1] = <<".", ".">>
    THEN Resolve(Tail(segments), SubSeq(resolved, 1, Len(resolved) - 1))
    ELSE IF segments[1] = <<".">> THEN Resolve(Tail(segments), resolved)
    ELSE Resolve(Tail(segments), Append(resolved, segments[1]))

\* base_parts of urljoin: the segments of the path of the base, without the
\* last one when it is not empty.
BaseParts(parts) ==
    IF Len(parts[Len(parts)]) # 0 THEN SubSeq(parts, 1, Len(parts) - 1)
    ELSE parts

\* segments of urljoin for a relative path: base_parts + path.split('/'),
\* the empty segments between the first and the last filtered out.
Filtered(parts) ==
    LET NonEmpty(seg) == Len(seg) > 0
    IN  IF Len(parts) <= 2 THEN parts
        ELSE <<parts[1]>>
               \o SelectSeq(SubSeq(parts, 2, Len(parts) - 1), NonEmpty)
               \o <<parts[Len(parts)]>>

\* resolved_path of urljoin joined: a "." or ".." at the end leaves a
\* trailing slash, and nothing is "/".
ResolvedPath(segments) ==
    LET resolved == IF segments[Len(segments)] \in {<<".">>, <<".", ".">>}
                    THEN JoinWith(Append(Resolve(segments, <<>>), <<>>), <<"/">>)
                    ELSE JoinWith(Resolve(segments, <<>>), <<"/">>)
    IN  IF Len(resolved) = 0 THEN <<"/">> ELSE resolved

\* urljoin after its two urlparse: b is the parsed base and r the parsed url.
JoinParsed(url, b, r) ==
    IF r.scheme # b.scheme \/ Join(r.scheme) \notin uses_relative
    THEN url
    ELSE IF Join(r.scheme) \in uses_netloc /\ Len(r.netloc) > 0
    THEN urlunparse(r.scheme, r.netloc, r.path, r.params, r.query, r.fragment)
    ELSE urlunparse(
             r.scheme,
             IF Join(r.scheme) \in uses_netloc THEN b.netloc ELSE r.netloc,
             IF Len(r.path) = 0 /\ Len(r.params) = 0 THEN b.path
             ELSE IF Len(r.path) > 0 /\ r.path[1] = "/"
             THEN ResolvedPath(Split(r.path, <<"/">>))
             ELSE ResolvedPath(Filtered(BaseParts(Split(b.path, <<"/">>))
                                          \o Split(r.path, <<"/">>))),
             IF Len(r.path) = 0 /\ Len(r.params) = 0 THEN b.params
             ELSE r.params,
             IF Len(r.path) = 0 /\ Len(r.params) = 0 /\ Len(r.query) = 0
             THEN b.query ELSE r.query,
             r.fragment)

\* The outcome of urljoin for the outcomes b and r of its two urlparse.
Joined(url, b, r) ==
    IF r.exc # "" THEN r ELSE Return(JoinParsed(url, b.ret, r.ret))

\* urljoin for the outcome b of urlparse(base): the url is parsed with the
\* scheme of the base for its default.
JoinBase(url, b) ==
    IF b.exc # "" THEN b ELSE Joined(url, b, urlparse(url, b.ret.scheme))

\* urljoin(base, url) for a str base and a url that is a str or None: the
\* absolute URL url refers to seen from base, or ValueError from urlparse.
urljoin(base, url) ==
    IF Len(base) = 0 THEN Return(IF url = None THEN None ELSE url.s)
    ELSE IF url = None \/ Len(url.s) = 0 THEN Return(base)
    ELSE JoinBase(url.s, urlparse(base, <<>>))

\* Config.api_url as a string
api_url == Join(S_api_url)

----------------------------------------------------------------------------
(* The GitHub enrichment (lines 163-230). *)

\* The anchor select_one finds at a slot of the detail page: no element,
\* an anchor without an href attribute, or an anchor with one.
NoElement == [kind |-> "none"]
AnchorNoHref == [kind |-> "a"]
Anchor(h) == [kind |-> "a", href |-> h]

\* select_one(...).attrs['href'] (lines 218, 220): AttributeError on no
\* element (None has no attrs), KeyError on an anchor without href.
HrefOf(slot) ==
    IF slot = NoElement THEN Raised("AttributeError")
    ELSE IF slot = AnchorNoHref THEN Raised("KeyError")
    ELSE Return(slot.href)

\* get_links (lines 208-230) on the parsed detail page: doc.primary is the
\* element at div:nth-child(3) > ul:nth-child(4) > li:nth-child(1) > a, and
\* doc.alternate the one at div:nth-child(2) > ul:nth-child(2) >
\* li:nth-child(2) > a.  The try block catches AttributeError only.
get_links(doc) ==
    LET first == HrefOf(doc.primary)
        second == HrefOf(doc.alternate)
        homepage == IF first.exc = "" /\ Contains(first.ret, S_issues)
                    THEN second ELSE first
    IN  IF homepage.exc = "AttributeError" THEN Return(None)
        ELSE IF homepage.exc # "" THEN homepage
        ELSE IF Contains(homepage.ret, S_github)
             THEN Return([kind |-> "dict",
                          github |-> Remove(homepage.ret, S_tags),
                          homepage |-> homepage.ret])
             ELSE Return(None)

\* info as get_repo_info initialises it (line 165)
DefaultInfo ==
    [kind |-> "dict", stars |-> 0, forks |-> 0, watchers |-> 0,
     set |-> FALSE, github_link |-> <<>>]

\* repo.split('github.com/')[1].rstrip('/') (line 167): IndexError when the
\* separator does not occur.
RepoName(repo) ==
    IF Len(Split(repo, S_github_com)) < 2 THEN Raised("IndexError")
    ELSE Return(RStrip(Split(repo, S_github_com)[2], "/"))

\* The body of an API response: a JSON object (a function from its keys),
\* a JSON value that is no object, or text that is not JSON.
JsonObject(o) == [kind |-> "object", obj |-> o]
JsonArray == [kind |-> "array"]
NotJson == [kind |-> "invalid"]

\* r.json().get(key, 0) (lines 188-190): r.json() raises JSONDecodeError (a
\* ValueError) on text that is not JSON; .get on a list is an AttributeError.
JsonGet(body, key) ==
    IF body.kind = "invalid" THEN Raised("JSONDecodeError")
    ELSE IF body.kind # "object" THEN Raised("AttributeError")
    ELSE Return(IF key \in DOMAIN body.obj THEN body.obj[key] ELSE 0)

\* get_repo_info from the response on (lines 173-197), for the repository
\* URL `repo` and the API response r = [status, body].  The except clause
\* catches KeyError, TypeError and AttributeError; a status that is none of
\* 401, 404, 403, 200 falls off the end of the function, which returns None.
RepoInfoOf(repo, r) ==
    LET stars == JsonGet(r.body, "stargazers_count")
        forks == JsonGet(r.body, "forks_count")
        watchers == JsonGet(r.body, "watchers_count")
    IN  IF r.status \in {401, 404, 403} THEN Return(DefaultInfo)
        ELSE IF r.status = 200
        THEN IF stars.exc = "JSONDecodeError" THEN stars
             ELSE IF stars.exc # "" THEN Return(DefaultInfo)
             ELSE Return([kind |-> "dict", stars |-> stars.ret,
                          forks |-> forks.ret, watchers |-> watchers.ret,
                          set |-> TRUE, github_link |-> repo])
        ELSE Return(None)

\* Python truth value of `info` (line 158): None is false, a dict with keys
\* is true.
Truthy(v) == v # None

----------------------------------------------------------------------------
(* The inputs: what the caller passes and what the servers answer. *)

Queries == {"requests"}
OptsSet == [debug : BOOLEAN, extra : BOOLEAN]

\* The body of the search page: with or without a "/<path>/script.js".
SearchBodies ==
    {[script |-> FALSE], [script |-> TRUE, path |-> "_fs-ch-1T1wmsGaOgGaSxcX"]}

\* base + c1 + c2 for the characters at positions i and j
Suffixed(base, i, j) == base \o <<characters[i]>> \o <<characters[j]>>

Challenge(base, hash) ==
    [base |-> base, hash |-> hash, hmac |-> "hmac-7f", expires |-> "1735689600",
     token |-> "tok-51"]

\* The body of script.js: with or without the init([{"ty":"pow",...}], "...")
\* literal.  The challenge served here is solved by "ac".
ScriptBodies ==
    {[pow |-> FALSE],
     [pow |-> TRUE,
      data |-> Challenge(<<"n", "1">>, Digest({}, Suffixed(<<"n", "1">>, 1, 3)))]}

\* The elements of a result snippet (an <a class="package-snippet">).
Span(text) == [kind |-> "span", text |-> text]
Created(time) == [kind |-> "span", time |-> time]
Time(datetime) == [kind |-> "time", datetime |-> datetime]
TimeNoDatetime == [kind |-> "time"]
Para(text) == [kind |-> "p", text |-> text]

\* The href of a snippet: an absolute path, a path relative to the search
\* page, or, where the attribute is missing, None.
Href_a == Str(<<"/", "p", "r", "o", "j", "e", "c", "t", "/", "a", "/">>)
Href_b ==         \* "../project/./b/"
    Str(<<".", ".", "/", "p", "r", "o", "j", "e", "c", "t", "/", ".", "/",
          "b", "/">>)
Hrefs == {Href_a, Href_b}
Malformed == {"no_name", "no_created", "no_time", "no_datetime", "bad_date",
              "no_description"}
Shapes == {"ok"} \cup Malformed

\* The texts of the elements, as the page has them.
Name_a == <<"a">>                                       \* "a"
Name_b == <<"\n", " ", "b", " ", "\\x0b", " ", "x", " ">>  \* "\n b \x0b x "
Date_ok ==        \* "2023-05-01T00:00:00+0000"
    <<"2", "0", "2", "3", "-", "0", "5", "-", "0", "1", "T",
      "0", "0", ":", "0", "0", ":", "0", "0", "+", "0", "0", "0", "0">>
Date_naive ==     \* "2023-05-01T00:00:00"
    SubSeq(Date_ok, 1, 19)
Date_spaced ==    \* "2023-05-01T00:00:00  +0000"
    SubSeq(Date_ok, 1, 19) \o <<" ", " ">> \o SubSeq(Date_ok, 20, 24)
Description == <<" ", "a", " ", "\t", "p", "k", "g", "\n">>  \* " a \tpkg\n"

SnippetOf(href, shape) ==
    [href |-> href,
     name |-> IF shape = "no_name" THEN NoElement
              ELSE Span(IF href = Href_a THEN Name_a ELSE Name_b),
     created |-> IF shape = "no_created" THEN NoElement
                 ELSE IF shape = "no_time" THEN Created(NoElement)
                 ELSE IF shape = "no_datetime" THEN Created(TimeNoDatetime)
                 ELSE IF shape = "bad_date"
                 THEN Created(Time(IF href = Href_a THEN Date_naive
                                   ELSE Date_spaced))
                 ELSE Created(Time(Date_ok)),
     description |-> IF shape = "no_description" THEN NoElement
                     ELSE Para(Description)]

\* The snippets of the result pages: two complete ones, the incomplete ones
\* of the one href, and a badly dated one that has no href.
Snippets ==
    {SnippetOf(h, "ok") : h \in Hrefs}
        \cup {SnippetOf(Href_a, s) : s \in Malformed}
        \cup {SnippetOf(None, "bad_date")}

\* A snippet with all the elements lines 143-153 read.
WellFormed(s) ==
    /\ s.name # NoElement
    /\ s.created # NoElement
    /\ s.created.time # NoElement
    /\ s.description # NoElement

\* A well-formed snippet whose <time> has a datetime attribute that is a
\* date of the format of line 43.
Dated(s) ==
    /\ WellFormed(s)
    /\ s.created.time # TimeNoDatetime
    /\ strptime(CollapseWs(s.created.time.datetime)).exc = ""

\* The snippets of one result page, in page order.
Pages == UNION {[1..n -> Snippets] : n \in 0..MaxSnippets}

\* The h1.package-header__name of a detail page: absent, with the name and
\* the version as its text ("\n a 1.0\n"), or with blank text.
Header(text) == [kind |-> "h1", text |-> text]
DetailPages == {[header |-> NoElement],
                [header |-> Header(<<"\n", " ", "a", " ", "1", ".", "0", "\n">>)],
                [header |-> Header(<<" ", "\\x0b">>)]}

\* The homepage hrefs of detail pages.
URL_repo ==       \* https://github.com/o/r
    <<"h", "t", "t", "p", "s", ":", "/", "/">> \o S_github_com \o <<"o", "/", "r">>
URL_tags ==       \* https://github.com/o/r/tags
    URL_repo \o S_tags
URL_issues ==     \* https://github.com/o/r/issues
    URL_repo \o <<"/">> \o S_issues
URL_other ==      \* https://x.org/r
    <<"h", "t", "t", "p", "s", ":", "/", "/", "x", ".", "o", "r", "g", "/", "r">>
URL_pages ==      \* https://o.github.io/r
    <<"h", "t", "t", "p", "s", ":", "/", "/", "o", ".">> \o S_github
        \o <<".", "i", "o", "/", "r">>

Urls == {URL_repo, URL_tags, URL_issues, URL_other, URL_pages}
Slots == {NoElement, AnchorNoHref} \cup {Anchor(h) : h \in Urls}

\* The two slots of a detail page that get_links reads; the alternate slot
\* is empty or holds a link that is no issue tracker.
LinkPages ==
    [primary : Slots,
     alternate : {NoElement, AnchorNoHref, Anchor(URL_tags), Anchor(URL_other)}]

\* The JSON objects of the API: a repository (here without the key
\* watchers_count) and an error message.
RepoObject == ("stargazers_count" :> 5) @@ ("forks_count" :> 3)
ErrorObject == ("message" :> 0)

\* The answers of the GitHub API.
ApiResponses ==
    {[status |-> 200, body |-> b] :
        b \in {JsonObject(RepoObject), JsonArray, NotJson}}
    \cup {[status |-> s, body |-> JsonObject(ErrorObject)] : s \in {401, 403, 404, 500}}

\* A 200 response whose body is a JSON object.
WellFormedOk(r) == r.status = 200 /\ r.body.kind = "object"

----------------------------------------------------------------------------
(* The requests search() and its helpers make on the session.  `at` is the *)
(* source line of the call and `snippet` the position of the snippet the   *)
(* request is made for (0 during the handshake and the pagination).        *)

ReqSearch(q) ==
    [method |-> "GET", at |-> 81, snippet |-> 0, url |-> api_url,
     params |-> [q |-> q]]
ReqScript(p) ==
    [method |-> "GET", at |-> 88, snippet |-> 0,
     url |-> "https://pypi.org/" \o p \o "/script.js"]
ReqAnswer(p, ch, ans) ==
    [method |-> "POST", at |-> 117, snippet |-> 0,
     url |-> "https://pypi.org/" \o p \o "/fst-post-back",
     json |-> [token |-> ch.token,
               data |-> <<[ty |-> "pow", base |-> ch.base, answer |-> ans,
                           hmac |-> ch.hmac, expires |-> ch.expires]>>]]
ReqPage(q, n) ==
    [method |-> "GET", at |-> 121, snippet |-> 0, url |-> api_url,
     params |-> [q |-> q, page |-> n]]
ReqDetail(link, i) ==
    [method |-> "GET", at |-> 147, snippet |-> i, url |-> link]
ReqLinks(link, i) ==
    [method |-> "GET", at |-> 210, snippet |-> i, url |-> link]
ReqApi(reponame, i) ==
    [method |-> "GET", at |-> 172, snippet |-> i,
     url |-> <<"https://api.github.com/repos/">> \o reponame]

----------------------------------------------------------------------------
(* The state machine. *)

Terminal == {"done", "error", "closed"}

callVars == <<query, opts>>
powVars == <<chal, c1, c2, answer, evals>>
enrichVars == <<soup, gh_link, apiResp, info>>

\* The module as imported (DEBUG = False, line 16); no search() called yet.
Init ==
    /\ DEBUG = FALSE /\ collisions = {}
    /\ query = "" /\ opts = [debug |-> FALSE, extra |-> FALSE]
    /\ pc = "none" /\ running = FALSE
    /\ err = "" /\ log = <<>> /\ path = "" /\ chal = None
    /\ c1 = 1 /\ c2 = 1 /\ answer = <<>> /\ evals = 0
    /\ page = 1 /\ snippets = <<>> /\ idx = 1 /\ pack = None
    /\ soup = None /\ gh_link = None /\ apiResp = None /\ info = None
    /\ yielded = <<>>

\* An exception leaves the generator: next() raises it to the consumer.
Raise(e) == pc' = "error" /\ err' = e /\ running' = FALSE

\* search(q, o) is called (line 67), at any moment the consumer has control:
\* a generator object is made; none of the body runs before the first
\* next().  DEBUG is module state and stays.  The variables follow the
\* generator of the latest call; a generator an earlier call made and that
\* is still alive goes on as one of the generators of OtherSearchStarts.
CallSearch(q, o) ==
    /\ ~running
    /\ query' = q /\ opts' = o
    /\ pc' = "start" /\ running' = FALSE
    /\ err' = "" /\ log' = <<>> /\ path' = "" /\ chal' = None
    /\ c1' = 1 /\ c2' = 1 /\ answer' = <<>> /\ evals' = 0
    /\ page' = 1 /\ snippets' = <<>> /\ idx' = 1 /\ pack' = None
    /\ soup' = None /\ gh_link' = None /\ apiResp' = None /\ info' = None
    /\ yielded' = <<>>
    /\ UNCHANGED <<DEBUG, collisions>>

\* A generator of another call search(q, o) of the process runs its lines
\* 73-74, while the generator the variables follow is suspended, not yet
\* started or ended.  The session and the locals of that generator are its
\* own; DEBUG is the one thing the generators share.
OtherSearchStarts(o) ==
    /\ ~running
    /\ DEBUG' = (DEBUG \/ o.debug)
    /\ UNCHANGED <<collisions, callVars, pc, running, err, log, path, powVars,
                   page, snippets, idx, pack, enrichVars, yielded>>

\* The consumer asks the generator for the next Package.
Resume ==
    /\ pc \notin Terminal \cup {"none"}
    /\ ~running
    /\ running' = TRUE
    /\ UNCHANGED <<DEBUG, collisions, callVars, pc, err, log, path, powVars, page,
                   snippets, idx, pack, enrichVars, yielded>>

\* The consumer stops iterating: the suspended generator is closed (or
\* dropped) and never runs again.
Close ==
    /\ pc \notin Terminal \cup {"none"}
    /\ ~running
    /\ pc' = "closed"
    /\ UNCHANGED <<DEBUG, collisions, callVars, running, err, log, path, powVars,
                   page, snippets, idx, pack, enrichVars, yielded>>

\* GetSearchPage going on without a script path instead of failing.
GetSearchPage_Lenient ==
    /\ pc = "start" /\ running
    /\ DEBUG' = (DEBUG \/ opts.debug)
    /\ log' = Append(log, ReqSearch(query))
    /\ \E body \in SearchBodies :
         /\ path' = IF body.script THEN body.path ELSE ""
         /\ pc' = "script" /\ UNCHANGED <<running, err>>
    /\ UNCHANGED <<collisions, callVars, powVars, page, snippets, idx, pack,
                   enrichVars, yielded>>

\* Lines 73-86: set DEBUG, GET the search page, find the script path.
GetSearchPage ==
    /\ pc = "start" /\ running
    /\ DEBUG' = (DEBUG \/ opts.debug)
    /\ log' = Append(log, ReqSearch(query))
    /\ \E body \in SearchBodies :
         IF body.script
         THEN path' = body.path /\ pc' = "script" /\ UNCHANGED <<running, err>>
         ELSE Raise("IndexError") /\ UNCHANGED path
    /\ UNCHANGED <<collisions, callVars, powVars, page, snippets, idx, pack,
                   enrichVars, yielded>>

\* Lines 88-98: GET script.js, find the PoW parameters.
GetScript ==
    /\ pc = "script" /\ running
    /\ log' = Append(log, ReqScript(path))
    /\ \E body \in ScriptBodies :
         IF body.pow
         THEN chal' = body.data /\ pc' = "pow" /\ UNCHANGED <<running, err>>
         ELSE Raise("IndexError") /\ UNCHANGED chal
    /\ UNCHANGED <<DEBUG, collisions, callVars, path, c1, c2, answer, evals, page,
                   snippets, idx, pack, enrichVars, yielded>>

\* Lines 100-107: one hash evaluation of the PoW loops.
PowStep ==
    /\ pc = "pow" /\ running
    /\ LET n == PowIteration(chal.base, chal.hash, c1, c2, answer)
       IN  /\ answer' = n.answer /\ c1' = n.c1 /\ c2' = n.c2
           /\ pc' = IF n.done THEN "post" ELSE "pow"
    /\ evals' = evals + 1
    /\ UNCHANGED <<DEBUG, collisions, callVars, running, err, log, path, chal,
                   page, snippets, idx, pack, enrichVars, yielded>>

\* PostAnswer without the POST: the pagination starts right after the loop.
PostAnswer_Skipped ==
    /\ pc = "post" /\ running
    /\ pc' = "page"
    /\ UNCHANGED <<DEBUG, collisions, callVars, running, err, log, path,
                   powVars, page, snippets, idx, pack, enrichVars, yielded>>

\* Lines 109-117: POST the answer; the response is not looked at.
PostAnswer ==
    /\ pc = "post" /\ running
    /\ log' = Append(log, ReqAnswer(path, chal, answer))
    /\ pc' = "page"
    /\ UNCHANGED <<DEBUG, collisions, callVars, running, err, path, powVars, page,
                   snippets, idx, pack, enrichVars, yielded>>

\* Lines 119-124: GET one result page and collect its snippets; after the
\* last page, lines 125-129.
GetPage ==
    /\ pc = "page" /\ running
    /\ page <= page_size
    /\ log' = Append(log, ReqPage(query, page))
    /\ \E body \in Pages :
         /\ Len(snippets) + Len(body) <= MaxSnippets
         /\ snippets' = snippets \o body
    /\ page' = page + 1
    /\ pc' = IF page = page_size THEN "snippet" ELSE "page"
    /\ UNCHANGED <<DEBUG, collisions, callVars, running, err, path, powVars, idx,
                   pack, enrichVars, yielded>>

\* re.sub(r"\s+", " ", snippet.select_one(
\* 'span[class*="package-snippet__name"]').text.strip()) (line 143):
\* select_one gives None for a missing element, and None has no text.
NameOf(s) ==
    IF s.name = NoElement THEN Raised("AttributeError")
    ELSE Return(CollapseWs(Strip(s.name.text)))

S_Unknown == <<"U", "n", "k", "n", "o", "w", "n">>

\* version_element.text.split()[-1] if version_element else "Unknown"
\* (lines 149-150): the last word of the header, IndexError when its text
\* has no word.
VersionOf(d) ==
    IF d.header = NoElement THEN Return(S_Unknown)
    ELSE IF Len(SplitWs(d.header.text)) = 0 THEN Raised("IndexError")
    ELSE Return(SplitWs(d.header.text)[Len(SplitWs(d.header.text))])

\* re.sub(r"\s+", " ", snippet.select_one(
\* 'span[class*="package-snippet__created"]').find("time")["datetime"])
\* (line 152): None has no find (AttributeError), find gives None for a
\* missing <time>, which has no items (TypeError), and a <time> without the
\* attribute has no such key (KeyError).  The value is not stripped.
ReleasedOf(s) ==
    IF s.created = NoElement THEN Raised("AttributeError")
    ELSE IF s.created.time = NoElement THEN Raised("TypeError")
    ELSE IF s.created.time = TimeNoDatetime THEN Raised("KeyError")
    ELSE Return(CollapseWs(s.created.time.datetime))

\* DescriptionOf with a default for the missing element instead of the error.
DescriptionOf_Default(s) ==
    IF s.description = NoElement THEN Return(<<>>)
    ELSE Return(CollapseWs(Strip(s.description.text)))

\* re.sub(r"\s+", " ", snippet.select_one(
\* 'p[class*="package-snippet__description"]').text.strip()) (line 153)
DescriptionOf(s) ==
    IF s.description = NoElement THEN Raised("AttributeError")
    ELSE Return(CollapseWs(Strip(s.description.text)))

\* Yield as a function that collects its Packages and returns them at the
\* end would do: the loop goes on and the consumer has nothing yet.
Yield_Eager(p) ==
    /\ yielded' = yielded
    /\ idx' = idx + 1
    /\ pc' = "snippet"
    /\ running' = running

\* Line 161: the Package goes to the consumer and the generator is suspended.
Yield(p) ==
    /\ yielded' = Append(yielded, p)
    /\ idx' = idx + 1
    /\ pc' = "snippet"
    /\ running' = FALSE

\* Lines 142-161 for the snippet s, `joined` being the outcome of the urljoin
\* of line 142: the name, the GET of the detail page, the version, the
\* release date, the description, the Package, each of which may raise;
\* without the extra option the Package is yielded.
LoopBody(s, joined) ==
    LET link == Join(joined.ret)
    IN  IF joined.exc # ""
    THEN /\ Raise(joined.exc)
         /\ UNCHANGED <<log, idx, pack, enrichVars, yielded>>
    ELSE IF NameOf(s).exc # ""
    THEN /\ Raise(NameOf(s).exc)
         /\ UNCHANGED <<log, idx, pack, enrichVars, yielded>>
    ELSE
    /\ log' = Append(log, ReqDetail(link, idx))
    /\ soup' = None /\ gh_link' = None /\ apiResp' = None
    /\ \E d \in DetailPages :
         LET p == Package(NameOf(s).ret, VersionOf(d).ret,
                          ReleasedOf(s).ret, DescriptionOf(s).ret,
                          Str(link))
         IN
         IF VersionOf(d).exc # ""
         THEN Raise(VersionOf(d).exc)
              /\ UNCHANGED <<idx, pack, info, yielded>>
         ELSE IF ReleasedOf(s).exc # ""
         THEN Raise(ReleasedOf(s).exc)
              /\ UNCHANGED <<idx, pack, info, yielded>>
         ELSE IF DescriptionOf(s).exc # ""
         THEN Raise(DescriptionOf(s).exc)
              /\ UNCHANGED <<idx, pack, info, yielded>>
         ELSE IF p.exc # ""
         THEN Raise(p.exc)
              /\ UNCHANGED <<idx, pack, info, yielded>>
         ELSE /\ pack' = p.ret
              /\ UNCHANGED <<err, info>>
              /\ IF opts.extra
                 THEN /\ pc' = "links"
                      /\ UNCHANGED <<running, idx, yielded>>
                 ELSE Yield(pack')

\* Lines 141-156 for the next snippet, or, after the last snippet, the
\* return of the generator.
ProcessSnippet ==
    /\ pc = "snippet" /\ running
    /\ IF idx > Len(snippets)
       THEN /\ pc' = "done" /\ running' = FALSE
            /\ UNCHANGED <<err, log, idx, pack, enrichVars, yielded>>
       ELSE LoopBody(snippets[idx], urljoin(S_api_url, snippets[idx].href))
    /\ UNCHANGED <<DEBUG, collisions, callVars, path, powVars, page, snippets>>

\* Lines 157, 201-203, 210-230, 165-170: get_github_info calls get_links,
\* which GETs the detail page again; with a link, get_repo_info takes the
\* repository name out of it.
GetLinks ==
    /\ pc = "links" /\ running
    /\ log' = Append(log, ReqLinks(pack.link, idx))
    /\ \E doc \in LinkPages :
         /\ soup' = doc
         /\ IF get_links(doc).exc # ""
            THEN /\ Raise(get_links(doc).exc)
                 /\ UNCHANGED <<gh_link, info>>
            ELSE /\ gh_link' = get_links(doc).ret
                 /\ UNCHANGED <<running, err>>
                 /\ IF gh_link' = None
                    THEN info' = None /\ pc' = "finish"
                    ELSE IF RepoName(gh_link'.github).exc # ""
                    THEN info' = DefaultInfo /\ pc' = "finish"
                    ELSE pc' = "api" /\ UNCHANGED info
    /\ UNCHANGED <<DEBUG, collisions, callVars, path, powVars, page, snippets,
                   idx, pack, apiResp, yielded>>

\* Lines 171-197: get_repo_info GETs the repository from the GitHub API and
\* maps the response.
GetRepoInfo ==
    /\ pc = "api" /\ running
    /\ log' = Append(log, ReqApi(RepoName(gh_link.github).ret, idx))
    /\ soup' = None
    /\ \E r \in ApiResponses :
         /\ apiResp' = r
         /\ IF RepoInfoOf(gh_link.github, r).exc # ""
            THEN Raise(RepoInfoOf(gh_link.github, r).exc) /\ UNCHANGED info
            ELSE /\ info' = RepoInfoOf(gh_link.github, r).ret
                 /\ pc' = "finish"
                 /\ UNCHANGED <<running, err>>
    /\ UNCHANGED <<DEBUG, collisions, callVars, path, powVars, page, snippets,
                   idx, pack, gh_link, yielded>>

\* Lines 158-161 as a function of the flag DEBUG: set_gh_info when info is
\* true; the debug message of line 160 formats the name `s`, which nothing
\* defines, so that evaluating it raises NameError.
Finish(p, i, debug) ==
    IF Truthy(i)
    THEN [pack |-> set_gh_info(p, i), exc |-> IF debug THEN "NameError" ELSE ""]
    ELSE [pack |-> p, exc |-> ""]

\* Lines 158-161: the end of the loop body with the extra option.
FinishSnippet ==
    /\ pc = "finish" /\ running
    /\ pack' = Finish(pack, info, DEBUG).pack
    /\ soup' = None
    /\ IF Finish(pack, info, DEBUG).exc # ""
       THEN Raise(Finish(pack, info, DEBUG).exc) /\ UNCHANGED <<idx, yielded>>
       ELSE Yield(pack') /\ UNCHANGED err
    /\ UNCHANGED <<DEBUG, collisions, callVars, log, path, powVars, page,
                   snippets, gh_link, apiResp, info>>

Next ==
    \/ \E q \in Queries, o \in OptsSet : CallSearch(q, o)
    \/ \E o \in OptsSet : OtherSearchStarts(o)
    \/ Resume
    \/ Close
    \/ GetSearchPage
    \/ GetScript
    \/ PowStep
    \/ PostAnswer
    \/ GetPage
    \/ ProcessSnippet
    \/ GetLinks
    \/ GetRepoInfo
    \/ FinishSnippet

Spec == Init /\ [][Next]_vars

----------------------------------------------------------------------------
(* The proof of work on its own: search() from line 97 to the POST of line *)
(* 117, started where lines 73-95 leave it, for challenges of every kind:  *)
(* a target one pair hashes to, a target two pairs hash to, and a target   *)
(* no pair hashes to.                                                      *)

PowBases == {<<"n", "1">>, <<"Z">>}
SamplePairs == {<<1, 1>>, <<1, 2>>, <<2, 1>>, <<2, 62>>, <<27, 1>>, <<62, 62>>}

\* The sets of strings that collide: none, or two of the sample strings.
CollisionSets(base) ==
    {{}} \cup {{Suffixed(base, p[1], p[2]), Suffixed(base, q[1], q[2])} :
                p \in SamplePairs, q \in SamplePairs}

\* The target digests: of a sample string, or of base + "a", which no
\* base + c1 + c2 equals.
Targets(coll, base) ==
    {Digest(coll, Suffixed(base, p[1], p[2])) : p \in SamplePairs}
        \cup {Digest(coll, base \o <<"a">>)}

InitPoW ==
    /\ \E base \in PowBases : \E coll \in CollisionSets(base) :
         \E hash \in Targets(coll, base) :
            /\ collisions = coll
            /\ chal = Challenge(base, hash)
    /\ DEBUG = FALSE
    /\ query = "requests" /\ opts = [debug |-> FALSE, extra |-> FALSE]
    /\ pc = "pow" /\ running = TRUE
    /\ err = "" /\ path = "_fs-ch-1T1wmsGaOgGaSxcX"
    /\ log = <<ReqSearch(query), ReqScript(path)>>
    /\ c1 = 1 /\ c2 = 1 /\ answer = <<>> /\ evals = 0
    /\ page = 1 /\ snippets = <<>> /\ idx = 1 /\ pack = None
    /\ soup = None /\ gh_link = None /\ apiResp = None /\ info = None
    /\ yielded = <<>>

NextPoW == PowStep \/ PostAnswer

SpecPoW == InitPoW /\ [][NextPoW]_vars

----------------------------------------------------------------------------
(* The properties. *)

Last(s) == s[Len(s)]

\* C1: the requests of a search are, in this order, the GET of the search
\* page with q = query, the GET of /<path>/script.js, the POST of the answer
\* to /<path>/fst-post-back with the token, base, hmac and expires of the
\* script, and only then the paginated GETs and the requests made for
\* snippets; none of these comes before the POST.
C1_RequestOrder ==
    /\ Len(log) >= 1 =>
         /\ log[1].method = "GET" /\ log[1].at = 81
         /\ log[1].url = api_url /\ log[1].params = [q |-> query]
    /\ Len(log) >= 2 =>
         /\ log[2].method = "GET" /\ log[2].at = 88
         /\ log[2].url = "https://pypi.org/" \o path \o "/script.js"
    /\ Len(log) >= 3 =>
         /\ log[3].method = "POST" /\ log[3].at = 117
         /\ log[3].url = "https://pypi.org/" \o path \o "/fst-post-back"
         /\ log[3].json.token = chal.token
         /\ Len(log[3].json.data) = 1
         /\ log[3].json.data[1].ty = "pow"
         /\ log[3].json.data[1].base = chal.base
         /\ log[3].json.data[1].hmac = chal.hmac
         /\ log[3].json.data[1].expires = chal.expires
    /\ \A i \in 1..Len(log) :
         log[i].at \in {121, 147, 210, 172} => i > 3
    /\ \A i \in 4..Len(log) : log[i].at \in {121, 147, 210, 172}
    /\ Len(log) >= 3 => \E body \in ScriptBodies : body.pow /\ body.data = chal

\* C1 witness: a search that went through the handshake, the pagination and
\* the GET of a detail page.
C1_Witness ==
    /\ Len(log) >= 6
    /\ log[3].method = "POST"
    /\ log[4].at = 121 /\ log[5].at = 121
    /\ \E i \in 6..Len(log) : log[i].at = 147

\* The alphabet in the order of the claim: lowercase, uppercase, digits.
Lowercase ==
    <<"a", "b", "c", "d", "e", "f", "g", "h", "i", "j", "k", "l", "m",
      "n", "o", "p", "q", "r", "s", "t", "u", "v", "w", "x", "y", "z">>
Uppercase ==
    <<"A", "B", "C", "D", "E", "F", "G", "H", "I", "J", "K", "L", "M",
      "N", "O", "P", "Q", "R", "S", "T", "U", "V", "W", "X", "Y", "Z">>
Digits == <<"0", "1", "2", "3", "4", "5", "6", "7", "8", "9">>
Alphabet == Lowercase \o Uppercase \o Digits

\* The pairs of positions whose characters, put after the base, hash to
\* the target.
MatchingPairs ==
    {p \in (1..Len(Alphabet)) \X (1..Len(Alphabet)) :
        sha256(chal.base \o <<Alphabet[p[1]], Alphabet[p[2]]>>) = chal.hash}

\* The first matching pair, c1 before c2, and "" when there is none.
ReferenceAnswer ==
    IF MatchingPairs = {} THEN <<>>
    ELSE LET first == CHOOSE p \in MatchingPairs :
                        \A q \in MatchingPairs :
                            p[1] < q[1] \/ (p[1] = q[1] /\ p[2] <= q[2])
         IN  <<Alphabet[first[1]], Alphabet[first[2]]>>

\* C2: the PoW loop ends within 62*62 hash evaluations without an error; its
\* answer is the first matching pair in enumeration order, "" exactly when
\* no pair matches; and the POST is sent with that answer in either case.
C2_PowAnswer ==
    /\ evals <= 62 * 62
    /\ pc = "pow" => evals < 62 * 62
    /\ pc # "error"
    /\ pc \in {"post", "page"} =>
         /\ answer = ReferenceAnswer
         /\ (answer = <<>>) <=> (MatchingPairs = {})
    /\ pc = "page" =>
         /\ Last(log).method = "POST"
         /\ Last(log).json.data[1].answer = ReferenceAnswer

\* C2 witness: no pair matched, the loop ran all 62*62 evaluations and the
\* POST went out with the answer "".
C2_Witness ==
    /\ pc = "page"
    /\ MatchingPairs = {}
    /\ evals = 62 * 62
    /\ Last(log).method = "POST" /\ Last(log).json.data[1].answer = <<>>

\* C3: with the extra option, a yielded Package has info_set = TRUE exactly
\* when its GitHub API call returned 200 with a well-formed body, and has
\* info_set = FALSE and default enrichment fields otherwise.
C3_InfoSetIffEnriched ==
    (opts.extra /\ pc \in {"snippet", "done", "closed"} /\ Len(yielded) >= 1) =>
        /\ Last(yielded).info_set <=> (apiResp # None /\ WellFormedOk(apiResp))
        /\ ~Last(yielded).info_set =>
             /\ Last(yielded).stars = 0 /\ Last(yielded).forks = 0
             /\ Last(yielded).watchers = 0 /\ Last(yielded).github_link = <<>>

\* C4: for every status of the API, get_repo_info returns a record and never
\* raises: set = TRUE with the counts of the response for a 200 with a
\* well-formed body, the default record otherwise; never None.
C4_RepoInfoTotal ==
    apiResp # None =>
        /\ err # "JSONDecodeError"
        /\ info # None
        /\ info.kind = "dict"
        /\ IF WellFormedOk(apiResp)
           THEN /\ info.set
                /\ info.stars = JsonGet(apiResp.body, "stargazers_count").ret
                /\ info.forks = JsonGet(apiResp.body, "forks_count").ret
                /\ info.watchers = JsonGet(apiResp.body, "watchers_count").ret
           ELSE info = DefaultInfo

\* The link of line 142 for each snippet: urljoin(config.api_url, href).
LinkOf == [s \in Snippets |-> Join(urljoin(S_api_url, s.href).ret)]

\* The paginated GETs made so far.
IsPageRequest(r) == r.at = 121
PageRequests == SelectSeq(log, IsPageRequest)

\* C5: after the handshake there are exactly page_size paginated GETs, with
\* page = 1, 2, ..., page_size in this order; and when every snippet and
\* detail page is well-formed, a search iterated to its end has yielded one
\* Package per snippet, in the order of the snippets, duplicates included.
C5_AllSnippetsYielded ==
    /\ Len(PageRequests) <= page_size
    /\ \A i \in 1..Len(PageRequests) :
         PageRequests[i].params = [q |-> query, page |-> i]
    /\ pc \in {"snippet", "links", "api", "finish", "done"} =>
         Len(PageRequests) = page_size
    /\ ( /\ pc \in {"done", "error"}
         /\ Len(PageRequests) = page_size
         /\ \A i \in 1..Len(snippets) : Dated(snippets[i])
         /\ err \notin {"KeyError", "IndexError"} ) =>
            /\ pc = "done"
            /\ Len(yielded) = Len(snippets)
            /\ \A i \in 1..Len(snippets) :
                 yielded[i].link = LinkOf[snippets[i]]

\* C6: the Package of snippet i is with the consumer before any request is
\* made for a later snippet, and once the consumer has stopped after k
\* Packages, no request for a snippet after the k-th has been made.
C6_LazyEmission ==
    /\ \A i \in 1..Len(log) : log[i].snippet <= Len(yielded) + 1
    /\ pc = "closed" => \A i \in 1..Len(log) : log[i].snippet <= Len(yielded)

\* C6 witness: the consumer stopped after the first of two Packages, and
\* requests were made for the first snippet only.
C6_Witness ==
    /\ pc = "closed"
    /\ Len(yielded) = 1 /\ Len(snippets) = 2
    /\ \E i \in 1..Len(log) : log[i].snippet = 1

\* C7: a search page without a script path, or a script without the PoW
\* parameters, ends the search with an error at that step: the request is
\* not made again, no later request is made and no Package is yielded.
C7_ProtocolErrorHalts ==
    /\ (Len(log) >= 1 /\ path = "") =>
         /\ pc = "error" /\ err = "IndexError" /\ ~running
         /\ Len(log) = 1 /\ yielded = <<>>
    /\ (Len(log) >= 2 /\ chal = None) =>
         /\ pc = "error" /\ err = "IndexError" /\ ~running
         /\ Len(log) = 2 /\ yielded = <<>>

\* C7 witness: the script had no PoW parameters and the search ended after
\* its second request.
C7_Witness ==
    /\ pc = "error" /\ Len(log) = 2 /\ chal = None /\ path # ""

\* C8: a snippet that lacks its name, its created span, the time in it or
\* its description raises an error when it is processed: no Package is
\* yielded for it or for a later snippet, and the Packages yielded before
\* stay as they are.
C8_MalformedSnippetHalts ==
    /\ \A i \in 1..Len(yielded) :
         /\ i <= Len(snippets)
         /\ \A j \in 1..i : WellFormed(snippets[j])
         /\ yielded[i].link = LinkOf[snippets[i]]
    /\ pc \in {"links", "api", "finish"} => WellFormed(snippets[idx])
    /\ pc = "done" => \A i \in 1..Len(snippets) : WellFormed(snippets[i])
    /\ ( /\ pc = "error" /\ idx <= Len(snippets) /\ Len(PageRequests) = page_size
         /\ ~WellFormed(snippets[idx]) ) =>
            /\ err \in {"AttributeError", "TypeError", "IndexError"}
            /\ Len(yielded) = idx - 1

\* C8 witness: a first Package was yielded, and the second snippet, which
\* lacks an element, ended the search with an error.
C8_Witness ==
    /\ pc = "error" /\ idx = 2 /\ Len(snippets) >= 2
    /\ Len(yielded) = 1
    /\ WellFormed(snippets[1]) /\ ~WellFormed(snippets[2])

HasHref(slot) == slot # NoElement /\ slot # AnchorNoHref

\* h with a trailing "/tags" taken off
WithoutTags(h) ==
    IF Len(h) >= Len(S_tags) /\ SubSeq(h, Len(h) - Len(S_tags) + 1, Len(h)) = S_tags
    THEN SubSeq(h, 1, Len(h) - Len(S_tags))
    ELSE h

\* The slot the rule primary -> issues check -> alternate resolves to.
ResolvedSlot ==
    IF HasHref(soup.primary) /\ Contains(soup.primary.href, S_issues)
    THEN soup.alternate
    ELSE soup.primary

\* C9: get_links takes the primary slot, or the alternate slot when the
\* primary href contains "issues"; a slot that is missing or has no href,
\* or an href without "github", gives None without an error, and then
\* get_github_info makes no API request and returns None; otherwise the
\* github link is the href without "/tags".
C9_LinkResolution ==
    soup # None =>
        IF ~HasHref(ResolvedSlot) \/ ~Contains(ResolvedSlot.href, S_github)
        THEN /\ gh_link = None /\ info = None
             /\ pc = "finish" /\ err = ""
             /\ Last(log).at = 210
        ELSE /\ pc \in {"api", "finish"} /\ err = ""
             /\ gh_link # None
             /\ gh_link.github = WithoutTags(ResolvedSlot.href)
             /\ ~Contains(gh_link.github, S_tags)

\* C10: the debug option only logs: what a search yields, and whether it
\* ends with an error, is the same with DEBUG on and off, and does not depend
\* on the debug option of an earlier call (which the module-level DEBUG
\* keeps).
C10_DebugTransparent ==
    pc = "finish" =>
        /\ Finish(pack, info, DEBUG) = Finish(pack, info, FALSE)
        /\ Finish(pack, info, DEBUG) = Finish(pack, info, opts.debug)

====
